---- MODULE Spec2Model ----
(***************************************************************************)
(* Model of the two upload handlers of tubely:                             *)
(*   handlerUploadVideo      (src/handler_upload_video.go)                 *)
(*   handlerUploadThumbnail  (src/handler_upload_thumbnail.go)             *)
(* Two requests are served concurrently (net/http runs each handler in its *)
(* own goroutine).  The shared state is the metadata store (db), the       *)
(* object storage bucket (s3), the assets directory (assets) and the       *)
(* temporary directory of the local disk (disk).                           *)
(***************************************************************************)
EXTENDS Integers, Sequences, FiniteSets, TLC

VARIABLES
    h,        \* h[p]: the locals, position and response of the request goroutine p serves
    db,       \* metadata store: video ID -> video record
    s3,       \* object storage: the keys of the objects written
    assets,   \* assets directory: filename -> "empty" | "partial" | "full"
    disk,     \* temporary directory: the paths of the files that exist
    randCtr,  \* number of values crypto/rand has produced so far
    lastUpdate \* history: the request whose UpdateVideo the store executed last

vars == <<h, db, s3, assets, disk, randCtr, lastUpdate>>

(***************************************************************************)
(* Bounds and input domains                                                *)
(***************************************************************************)
\* Largest width and height the prober reports.
MaxDim == 4

Procs == {"p1", "p2"}

\* Names of the values crypto/rand produces: the n-th draw is RandNames[n].
\* 32 random bytes: draws are taken to be pairwise distinct.
RandNames == <<"r1", "r2", "r3", "r4">>

\* Path values: a malformed ID, the ID of the stored record, an ID of no record.
PathValues == {"not-a-uuid", "v1", "v9"}

\* Authorization headers: absent, a token that does not validate, tokens of two users.
Tokens == {"none", "invalid", "jwt-u1", "jwt-u2"}

NoURL == <<>>
NoFile == <<>>
NoVideo == [ID |-> "", UserID |-> "", VideoURL |-> NoURL, ThumbnailURL |-> NoURL]

\* A raw content-type header of a multipart part: the slash-separated tokens of
\* its type (lower-cased), whether the raw text has upper-case letters, and its
\* parameter list ("none", "ok": well-formed, "bad": malformed).
CT(base, upper, params) == [base |-> base, upper |-> upper, params |-> params]

ContentTypes ==
    { CT(<<>>, FALSE, "none"),
      CT(<<"mp4">>, FALSE, "none"),
      CT(<<"video", "mp4">>, FALSE, "none"),
      CT(<<"video", "mp4">>, TRUE, "none"),
      CT(<<"video", "mp4">>, FALSE, "ok"),
      CT(<<"video", "mp4">>, FALSE, "bad"),
      CT(<<"image", "png">>, FALSE, "none"),
      CT(<<"image", "png">>, TRUE, "none"),
      CT(<<"image", "jpeg">>, FALSE, "none"),
      CT(<<"image", "gif">>, FALSE, "none") }

NoHeader == CT(<<"-">>, FALSE, "-")

Dims == 0 .. MaxDim
Stream(w, ht) == [width |-> w, height |-> ht]
\* A stream without width and height (an audio stream) unmarshals to zeros.
AudioStream == Stream(0, 0)

\* What the prober can do: fail to run, print something that is not JSON,
\* or print a JSON document with zero, one or two streams.
ProbeOutputs ==
    { [run |-> FALSE, json |-> FALSE, streams |-> <<>>],
      [run |-> TRUE, json |-> FALSE, streams |-> <<>>],
      [run |-> TRUE, json |-> TRUE, streams |-> <<>>] }
    \cup { [run |-> TRUE, json |-> TRUE, streams |-> <<Stream(w, ht)>>] : w \in Dims, ht \in Dims }
    \cup { [run |-> TRUE, json |-> TRUE, streams |-> <<Stream(w, ht), AudioStream>>] :
             w \in Dims, ht \in Dims }
    \cup { [run |-> TRUE, json |-> TRUE, streams |-> <<AudioStream, Stream(w, ht)>>] :
             w \in {1, MaxDim}, ht \in {1, MaxDim} }

(***************************************************************************)
(* Configuration (apiConfig)                                               *)
(***************************************************************************)
s3CfDistribution == "https://cdn.example"
port == "8091"

(***************************************************************************)
(* Collaborators outside src/: internal/auth and internal/database         *)
(***************************************************************************)
\* uuid.Parse: the ID, or "" for an error.
ParseUUID(s) == IF s = "not-a-uuid" THEN "" ELSE s

\* auth.GetBearerToken: the token of the Authorization header, or "" for an error.
GetBearerToken(t) == IF t = "none" THEN "" ELSE t

\* auth.ValidateJWT: the user ID of a valid token, or "" for an error.
ValidateJWT(t) ==
    CASE t = "jwt-u1" -> "u1"
      [] t = "jwt-u2" -> "u2"
      [] OTHER -> ""

\* db.GetVideo: the stored record, or NoVideo for an error.
GetVideo(id) == IF id \in DOMAIN db THEN db[id] ELSE NoVideo

\* db.UpdateVideo: the store after the whole record is written under its ID.
UpdateVideo(video) == [db EXCEPT ![video.ID] = video]

(***************************************************************************)
(* Library functions                                                       *)
(***************************************************************************)
\* mime.ParseMediaType: lower-cases the type, drops the parameters; an empty
\* type or a malformed parameter list is an error.
ParseMediaType(ct) ==
    IF ct.base = <<>> \/ ct.params = "bad"
    THEN [mediaType |-> <<>>, err |-> TRUE]
    ELSE [mediaType |-> ct.base, err |-> FALSE]

VideoMP4 == <<"video", "mp4">>
ImageJPEG == <<"image", "jpeg">>
ImagePNG == <<"image", "png">>

\* float64 division: NaN for 0/0, +Inf for w/0, else the quotient num/den.
FDiv(w, ht) ==
    IF ht = 0
    THEN IF w = 0 THEN [kind |-> "nan", num |-> 0, den |-> 1]
                  ELSE [kind |-> "inf", num |-> 1, den |-> 1]
    ELSE [kind |-> "num", num |-> w, den |-> ht]

\* x < c and x > c for a float64 x and an integer constant c (false for NaN).
FLess(x, c) == x.kind = "num" /\ x.num < c * x.den
FGreater(x, c) == x.kind = "inf" \/ (x.kind = "num" /\ x.num > c * x.den)


(***************************************************************************)
(* Request state                                                           *)
(***************************************************************************)
\* The locals of a handler invocation before its first statement.  The field
\* videoMetadata is the record GetVideo returned (the thumbnail handler calls
\* it video); body is the record as passed to UpdateVideo and written as the
\* JSON response.
InitLocal ==
    [ pc |-> "idle", handler |-> "", videoID |-> "", token |-> "", userID |-> "",
      videoMetadata |-> NoVideo, header |-> NoHeader, mediaType |-> <<>>,
      tmpFile |-> NoFile, probe |-> <<>>, aspectRatio |-> "", prefix |-> "",
      processedPath |-> NoFile, filename |-> <<>>, body |-> NoVideo,
      err |-> "", status |-> 0, msg |-> "" ]

\* respondWithError / respondWithJSON followed by the handler's return.
Respond(hp, code, msg) == [hp EXCEPT !.pc = "done", !.status = code, !.msg = msg]

Goto(hp, pc) == [hp EXCEPT !.pc = pc]

\* The deferred os.Remove(tmpFile.Name()) of the video handler, run at its return.
DeferredRemove(p) == disk \ {h[p].tmpFile}

Init ==
    /\ h = [p \in Procs |-> InitLocal]
    /\ db = [v \in {"v1"} |-> [ID |-> "v1", UserID |-> "u1", VideoURL |-> NoURL,
                                ThumbnailURL |-> NoURL]]
    /\ s3 = {}
    /\ assets = <<>>
    /\ disk = {}
    /\ randCtr = 0
    /\ lastUpdate = ""

(***************************************************************************)
(* handlerUploadVideo                                                      *)
(***************************************************************************)
BeginVideo(p) ==
    /\ h[p].pc = "idle"
    /\ h' = [h EXCEPT ![p] = [@ EXCEPT !.pc = "VParseID", !.handler = "video"]]
    /\ UNCHANGED <<db, s3, assets, disk, randCtr, lastUpdate>>

VParseID(p) ==
    /\ h[p].pc = "VParseID"
    /\ \E videoIDString \in PathValues :
         h' = [h EXCEPT ![p] =
                 IF ParseUUID(videoIDString) = ""
                 THEN Respond(@, 400, "missing video id parameter")
                 ELSE [@ EXCEPT !.pc = "VGetBearerToken",
                                !.videoID = ParseUUID(videoIDString)]]
    /\ UNCHANGED <<db, s3, assets, disk, randCtr, lastUpdate>>

VGetBearerToken(p) ==
    /\ h[p].pc = "VGetBearerToken"
    /\ \E hdr \in Tokens :
         h' = [h EXCEPT ![p] =
                 IF GetBearerToken(hdr) = ""
                 THEN Respond(@, 401, "unauthorized")
                 ELSE [@ EXCEPT !.pc = "VValidateJWT", !.token = GetBearerToken(hdr)]]
    /\ UNCHANGED <<db, s3, assets, disk, randCtr, lastUpdate>>

\* Variant of VValidateJWT that does not return on a token that fails validation.
VValidateJWT_Lenient(p) ==
    /\ h[p].pc = "VValidateJWT"
    /\ h' = [h EXCEPT ![p] =
               [@ EXCEPT !.pc = "VGetVideo", !.userID = ValidateJWT(h[p].token)]]
    /\ UNCHANGED <<db, s3, assets, disk, randCtr, lastUpdate>>

VValidateJWT(p) ==
    /\ h[p].pc = "VValidateJWT"
    /\ h' = [h EXCEPT ![p] =
               IF ValidateJWT(h[p].token) = ""
               THEN Respond(@, 401, "unauthorized")
               ELSE [@ EXCEPT !.pc = "VGetVideo", !.userID = ValidateJWT(h[p].token)]]
    /\ UNCHANGED <<db, s3, assets, disk, randCtr, lastUpdate>>

VGetVideo(p) ==
    /\ h[p].pc = "VGetVideo"
    /\ h' = [h EXCEPT ![p] =
               IF GetVideo(h[p].videoID) = NoVideo
               THEN Respond(@, 404, "not found")
               ELSE [@ EXCEPT !.pc = "VCheckOwner",
                              !.videoMetadata = GetVideo(h[p].videoID)]]
    /\ UNCHANGED <<db, s3, assets, disk, randCtr, lastUpdate>>

\* Variant of OwnerMismatch that only rejects a caller without identity.
OwnerMismatch_EmptyOnly(videoMetadata, userID) == userID = ""

\* videoMetadata.UserID != userID
OwnerMismatch(videoMetadata, userID) == videoMetadata.UserID # userID

VCheckOwner(p) ==
    /\ h[p].pc = "VCheckOwner"
    /\ h' = [h EXCEPT ![p] =
               IF OwnerMismatch(h[p].videoMetadata, h[p].userID)
               THEN Respond(@, 401, "unauthorized")
               ELSE Goto(@, "VFormFile")]
    /\ UNCHANGED <<db, s3, assets, disk, randCtr, lastUpdate>>

\* r.FormFile("video"): fails, or yields the part and its header.
VFormFile(p) ==
    /\ h[p].pc = "VFormFile"
    /\ \/ h' = [h EXCEPT ![p] = Respond(@, 500, "Could not get video file")]
       \/ \E ct \in ContentTypes :
            h' = [h EXCEPT ![p] = [@ EXCEPT !.pc = "VParseMediaType", !.header = ct]]
    /\ UNCHANGED <<db, s3, assets, disk, randCtr, lastUpdate>>

VParseMediaType(p) ==
    /\ h[p].pc = "VParseMediaType"
    /\ h' = [h EXCEPT ![p] =
               IF ParseMediaType(h[p].header).err
               THEN Respond(@, 400, "Unable to parse mimetype")
               ELSE [@ EXCEPT !.pc = "VCheckMediaType",
                              !.mediaType = ParseMediaType(h[p].header).mediaType]]
    /\ UNCHANGED <<db, s3, assets, disk, randCtr, lastUpdate>>

\* Variant of VideoTypeOK that looks at the last token of the type only.
VideoTypeOK_Suffix(mediaType) == mediaType[Len(mediaType)] = "mp4"

\* mediaType == "video/mp4"
VideoTypeOK(mediaType) == mediaType = VideoMP4

VCheckMediaType(p) ==
    /\ h[p].pc = "VCheckMediaType"
    /\ h' = [h EXCEPT ![p] =
               IF ~VideoTypeOK(h[p].mediaType)
               THEN Respond(@, 400, "only video/mp4 mimetype accepted")
               ELSE Goto(@, "VCreateTemp")]
    /\ UNCHANGED <<db, s3, assets, disk, randCtr, lastUpdate>>

\* os.CreateTemp("", "video-upload.mp4"): a name no other request has.
TempName(p) == <<"video-upload.mp4", p>>

VCreateTemp(p) ==
    /\ h[p].pc = "VCreateTemp"
    /\ \/ /\ h' = [h EXCEPT ![p] = Respond(@, 500, "unable to create temp file")]
          /\ UNCHANGED disk
       \/ /\ h' = [h EXCEPT ![p] = [@ EXCEPT !.pc = "VCopy", !.tmpFile = TempName(p)]]
          /\ disk' = disk \cup {TempName(p)}
    /\ UNCHANGED <<db, s3, assets, randCtr, lastUpdate>>

VCopy(p) ==
    /\ h[p].pc = "VCopy"
    /\ \/ /\ h' = [h EXCEPT ![p] = Respond(@, 500, "unable to copy file")]
          /\ disk' = DeferredRemove(p)
       \/ /\ h' = [h EXCEPT ![p] = Goto(@, "VSeek")]
          /\ UNCHANGED disk
    /\ UNCHANGED <<db, s3, assets, randCtr, lastUpdate>>

VSeek(p) ==
    /\ h[p].pc = "VSeek"
    /\ \/ /\ h' = [h EXCEPT ![p] = Respond(@, 500, "unable to find file start")]
          /\ disk' = DeferredRemove(p)
       \/ /\ h' = [h EXCEPT ![p] = Goto(@, "VAspectRatio")]
          /\ UNCHANGED disk
    /\ UNCHANGED <<db, s3, assets, randCtr, lastUpdate>>

\* json.Unmarshal into data; its error is ignored: output that is not JSON
\* leaves data.Streams empty.
Unmarshal(out) == IF out.json THEN out.streams ELSE <<>>

\* Variant of getVideoAspectRatio with inclusive bounds for 16:9.
getVideoAspectRatio_Inclusive(out) ==
    IF ~out.run
    THEN [ratio |-> "", err |-> "exit status 1"]
    ELSE IF Len(Unmarshal(out)) < 1
    THEN [ratio |-> "", err |-> "Missing video stream data"]
    ELSE LET result == FDiv(Unmarshal(out)[1].width, Unmarshal(out)[1].height)
         IN  CASE FLess(result, 1) -> [ratio |-> "9:16", err |-> ""]
               [] ~FLess(result, 1) /\ ~FGreater(result, 2) -> [ratio |-> "16:9", err |-> ""]
               [] OTHER -> [ratio |-> "other", err |-> ""]

getVideoAspectRatio(out) ==
    IF ~out.run
    THEN [ratio |-> "", err |-> "exit status 1"]
    ELSE IF Len(Unmarshal(out)) < 1
    THEN [ratio |-> "", err |-> "Missing video stream data"]
    ELSE LET result == FDiv(Unmarshal(out)[1].width, Unmarshal(out)[1].height)
         IN  CASE FLess(result, 1) -> [ratio |-> "9:16", err |-> ""]
               [] FGreater(result, 1) /\ FLess(result, 2) -> [ratio |-> "16:9", err |-> ""]
               [] OTHER -> [ratio |-> "other", err |-> ""]

\* Variant of Prefix with the landscape and portrait cases exchanged.
Prefix_Swapped(aspectRatio) ==
    CASE aspectRatio = "16:9" -> "portrait"
      [] aspectRatio = "9:16" -> "landscape"
      [] aspectRatio = "other" -> "other"
      [] OTHER -> ""

\* var prefix string; switch aspectRatio { ... }
Prefix(aspectRatio) ==
    CASE aspectRatio = "16:9" -> "landscape"
      [] aspectRatio = "9:16" -> "portrait"
      [] aspectRatio = "other" -> "other"
      [] OTHER -> ""

\* getVideoAspectRatio(tmpFile.Name()) on what the prober prints for the file,
\* then the choice of the prefix.
VAspectRatio(p) ==
    /\ h[p].pc = "VAspectRatio"
    /\ \E out \in ProbeOutputs :
         LET r == getVideoAspectRatio(out)
         IN  IF r.err # ""
             THEN /\ h' = [h EXCEPT ![p] =
                             [Respond(@, 500, "cannot get video aspect ratio")
                                EXCEPT !.probe = <<out>>, !.err = r.err]]
                  /\ disk' = DeferredRemove(p)
             ELSE /\ h' = [h EXCEPT ![p] =
                             [@ EXCEPT !.pc = "VFastStart", !.probe = <<out>>,
                                       !.aspectRatio = r.ratio,
                                       !.prefix = Prefix(r.ratio)]]
                  /\ UNCHANGED disk
    /\ UNCHANGED <<db, s3, assets, randCtr, lastUpdate>>

\* outputPath := filePath + ".processing"
ProcessingPath(filePath) == filePath \o <<".processing">>

\* processVideoForFastStart(tmpFile.Name()): the remuxer fails (taken to leave
\* no output file behind), or writes the output file.  The prober's output
\* went out of scope when getVideoAspectRatio returned.
VFastStart(p) ==
    /\ h[p].pc = "VFastStart"
    /\ \/ /\ h' = [h EXCEPT ![p] =
                     [Respond(@, 500, "unable to process video") EXCEPT !.probe = <<>>]]
          /\ disk' = DeferredRemove(p)
       \/ /\ h' = [h EXCEPT ![p] =
                     [@ EXCEPT !.pc = "VOpen", !.probe = <<>>,
                               !.processedPath = ProcessingPath(h[p].tmpFile)]]
          /\ disk' = disk \cup {ProcessingPath(h[p].tmpFile)}
    /\ UNCHANGED <<db, s3, assets, randCtr, lastUpdate>>

VOpen(p) ==
    /\ h[p].pc = "VOpen"
    /\ \/ /\ h' = [h EXCEPT ![p] = Respond(@, 500, "error reading processed file")]
          /\ disk' = DeferredRemove(p)
       \/ /\ h' = [h EXCEPT ![p] = Goto(@, "VRand")]
          /\ UNCHANGED disk
    /\ UNCHANGED <<db, s3, assets, randCtr, lastUpdate>>

\* strings.Split(mediaType, "/")[1]
Extension(mediaType) == mediaType[2]

\* prefix + "/" + randBufBase64 + "." + extension
VideoKey(prefix, randBufBase64, extension) == <<prefix, "/", randBufBase64, ".", extension>>

VRand(p) ==
    /\ h[p].pc = "VRand"
    /\ \/ /\ h' = [h EXCEPT ![p] = Respond(@, 500, "cannot create random buf")]
          /\ disk' = DeferredRemove(p)
          /\ UNCHANGED randCtr
       \/ /\ randCtr < Len(RandNames)
          /\ h' = [h EXCEPT ![p] =
                     [@ EXCEPT !.pc = "VPutObject",
                               !.filename = VideoKey(h[p].prefix, RandNames[randCtr + 1],
                                                     Extension(h[p].mediaType))]]
          /\ randCtr' = randCtr + 1
          /\ UNCHANGED disk
    /\ UNCHANGED <<db, s3, assets, lastUpdate>>

\* fmt.Sprintf("%s/%s", cfg.s3CfDistribution, filename)
VideoURL(filename) == <<s3CfDistribution, "/">> \o filename

\* videoMetadata.VideoURL = &url: the record passed to UpdateVideo.
\* Variant of VideoWithURL that reads the record again before setting the URL.
VideoWithURL_Reread(p) == [GetVideo(h[p].videoID) EXCEPT !.VideoURL = VideoURL(h[p].filename)]

VideoWithURL(p) == [h[p].videoMetadata EXCEPT !.VideoURL = VideoURL(h[p].filename)]

\* Variant of VPutObject in which the record is updated before the storage write.
VPutObject_UpdateFirst(p) ==
    /\ h[p].pc = "VPutObject"
    /\ \/ /\ h' = [h EXCEPT ![p] = Respond(@, 500, "unable to write to s3")]
          /\ db' = UpdateVideo(VideoWithURL(p))
          /\ lastUpdate' = p
          /\ disk' = DeferredRemove(p)
          /\ UNCHANGED s3
       \/ /\ h' = [h EXCEPT ![p] = Goto(@, "VUpdateVideo")]
          /\ s3' = s3 \cup {h[p].filename}
          /\ UNCHANGED <<disk, db, lastUpdate>>
    /\ UNCHANGED <<assets, randCtr>>

VPutObject(p) ==
    /\ h[p].pc = "VPutObject"
    /\ \/ /\ h' = [h EXCEPT ![p] = Respond(@, 500, "unable to write to s3")]
          /\ disk' = DeferredRemove(p)
          /\ UNCHANGED s3
       \/ /\ h' = [h EXCEPT ![p] = Goto(@, "VUpdateVideo")]
          /\ s3' = s3 \cup {h[p].filename}
          /\ UNCHANGED disk
    /\ UNCHANGED <<db, assets, randCtr, lastUpdate>>

VUpdateVideo(p) ==
    /\ h[p].pc = "VUpdateVideo"
    /\ \/ /\ h' = [h EXCEPT ![p] =
                     [Respond(@, 500, "unable to update video metadata")
                        EXCEPT !.body = VideoWithURL(p)]]
          /\ UNCHANGED <<db, lastUpdate>>
       \/ /\ h' = [h EXCEPT ![p] = [Respond(@, 200, "") EXCEPT !.body = VideoWithURL(p)]]
          /\ db' = UpdateVideo(VideoWithURL(p))
          /\ lastUpdate' = p
    /\ disk' = DeferredRemove(p)
    /\ UNCHANGED <<s3, assets, randCtr>>

(***************************************************************************)
(* handlerUploadThumbnail                                                  *)
(***************************************************************************)
BeginThumbnail(p) ==
    /\ h[p].pc = "idle"
    /\ h' = [h EXCEPT ![p] = [@ EXCEPT !.pc = "TParseID", !.handler = "thumbnail"]]
    /\ UNCHANGED <<db, s3, assets, disk, randCtr, lastUpdate>>

TParseID(p) ==
    /\ h[p].pc = "TParseID"
    /\ \E videoIDString \in PathValues :
         h' = [h EXCEPT ![p] =
                 IF ParseUUID(videoIDString) = ""
                 THEN Respond(@, 400, "Invalid ID")
                 ELSE [@ EXCEPT !.pc = "TGetBearerToken",
                                !.videoID = ParseUUID(videoIDString)]]
    /\ UNCHANGED <<db, s3, assets, disk, randCtr, lastUpdate>>

TGetBearerToken(p) ==
    /\ h[p].pc = "TGetBearerToken"
    /\ \E hdr \in Tokens :
         h' = [h EXCEPT ![p] =
                 IF GetBearerToken(hdr) = ""
                 THEN Respond(@, 401, "Couldn't find JWT")
                 ELSE [@ EXCEPT !.pc = "TValidateJWT", !.token = GetBearerToken(hdr)]]
    /\ UNCHANGED <<db, s3, assets, disk, randCtr, lastUpdate>>

TValidateJWT(p) ==
    /\ h[p].pc = "TValidateJWT"
    /\ h' = [h EXCEPT ![p] =
               IF ValidateJWT(h[p].token) = ""
               THEN Respond(@, 401, "Couldn't validate JWT")
               ELSE [@ EXCEPT !.pc = "TParseMultipartForm",
                              !.userID = ValidateJWT(h[p].token)]]
    /\ UNCHANGED <<db, s3, assets, disk, randCtr, lastUpdate>>

\* r.ParseMultipartForm(maxMemory)
TParseMultipartForm(p) ==
    /\ h[p].pc = "TParseMultipartForm"
    /\ \/ h' = [h EXCEPT ![p] = Respond(@, 500, "Could not parse formdata")]
       \/ h' = [h EXCEPT ![p] = Goto(@, "TFormFile")]
    /\ UNCHANGED <<db, s3, assets, disk, randCtr, lastUpdate>>

\* r.FormFile("thumbnail")
TFormFile(p) ==
    /\ h[p].pc = "TFormFile"
    /\ \/ h' = [h EXCEPT ![p] = Respond(@, 500, "Unable to read file")]
       \/ \E ct \in ContentTypes :
            h' = [h EXCEPT ![p] = [@ EXCEPT !.pc = "TGetVideo", !.header = ct]]
    /\ UNCHANGED <<db, s3, assets, disk, randCtr, lastUpdate>>

TGetVideo(p) ==
    /\ h[p].pc = "TGetVideo"
    /\ h' = [h EXCEPT ![p] =
               IF GetVideo(h[p].videoID) = NoVideo
               THEN Respond(@, 404, "Video not found")
               ELSE [@ EXCEPT !.pc = "TCheckOwner",
                              !.videoMetadata = GetVideo(h[p].videoID)]]
    /\ UNCHANGED <<db, s3, assets, disk, randCtr, lastUpdate>>

TCheckOwner(p) ==
    /\ h[p].pc = "TCheckOwner"
    /\ h' = [h EXCEPT ![p] =
               IF h[p].videoMetadata.UserID # h[p].userID
               THEN Respond(@, 401, "Unauthorized")
               ELSE Goto(@, "TParseMediaType")]
    /\ UNCHANGED <<db, s3, assets, disk, randCtr, lastUpdate>>

TParseMediaType(p) ==
    /\ h[p].pc = "TParseMediaType"
    /\ h' = [h EXCEPT ![p] =
               IF ParseMediaType(h[p].header).err
               THEN Respond(@, 500, "could not parse media type")
               ELSE [@ EXCEPT !.pc = "TCheckMediaType",
                              !.mediaType = ParseMediaType(h[p].header).mediaType]]
    /\ UNCHANGED <<db, s3, assets, disk, randCtr, lastUpdate>>

\* mediaType != "image/jpeg" && mediaType != "image/png"
ThumbnailTypeBad(mediaType) == mediaType # ImageJPEG /\ mediaType # ImagePNG

TCheckMediaType(p) ==
    /\ h[p].pc = "TCheckMediaType"
    /\ h' = [h EXCEPT ![p] =
               IF ThumbnailTypeBad(h[p].mediaType)
               THEN Respond(@, 400, "invalid media type")
               ELSE Goto(@, "TRand")]
    /\ UNCHANGED <<db, s3, assets, disk, randCtr, lastUpdate>>

\* randBufBase64 + "." + extension
AssetName(randBufBase64, extension) == <<randBufBase64, ".", extension>>

TRand(p) ==
    /\ h[p].pc = "TRand"
    /\ \/ /\ h' = [h EXCEPT ![p] = Respond(@, 500, "error creating random buffer")]
          /\ UNCHANGED randCtr
       \/ /\ randCtr < Len(RandNames)
          /\ h' = [h EXCEPT ![p] =
                     [@ EXCEPT !.pc = "TCreate",
                               !.filename = AssetName(RandNames[randCtr + 1],
                                                      Extension(h[p].mediaType))]]
          /\ randCtr' = randCtr + 1
    /\ UNCHANGED <<db, s3, assets, disk, lastUpdate>>

\* os.Create(filepath.Join(cfg.assetsRoot, filename)): creates or truncates.
TCreate(p) ==
    /\ h[p].pc = "TCreate"
    /\ \/ /\ h' = [h EXCEPT ![p] = Respond(@, 500, "could not create new file")]
          /\ UNCHANGED assets
       \/ /\ h' = [h EXCEPT ![p] = Goto(@, "TCopy")]
          /\ assets' = (h[p].filename :> "empty") @@ assets
    /\ UNCHANGED <<db, s3, disk, randCtr, lastUpdate>>

\* Variant of TCopy that goes on to UpdateVideo after a failed copy.
TCopy_NoReturn(p) ==
    /\ h[p].pc = "TCopy"
    /\ \E data \in {"empty", "partial", "full"} :
         assets' = (h[p].filename :> data) @@ assets
    /\ h' = [h EXCEPT ![p] = Goto(@, "TUpdateVideo")]
    /\ UNCHANGED <<db, s3, disk, randCtr, lastUpdate>>

\* io.Copy(newFile, file): fails with none or some of the bytes written, or
\* writes them all.
TCopy(p) ==
    /\ h[p].pc = "TCopy"
    /\ \/ /\ h' = [h EXCEPT ![p] = Respond(@, 500, "could not copy file")]
          /\ \E data \in {"empty", "partial"} :
               assets' = (h[p].filename :> data) @@ assets
       \/ /\ h' = [h EXCEPT ![p] = Goto(@, "TUpdateVideo")]
          /\ assets' = (h[p].filename :> "full") @@ assets
    /\ UNCHANGED <<db, s3, disk, randCtr, lastUpdate>>

\* fmt.Sprintf("http://localhost:%s/assets/%s", cfg.port, filename)
ThumbnailURL(filename) == <<"http://localhost:", port, "/assets/">> \o filename

\* video.ThumbnailURL = &thumbnailUrl: the record passed to UpdateVideo.
ThumbnailWithURL(p) ==
    [h[p].videoMetadata EXCEPT !.ThumbnailURL = ThumbnailURL(h[p].filename)]

TUpdateVideo(p) ==
    /\ h[p].pc = "TUpdateVideo"
    /\ \/ /\ h' = [h EXCEPT ![p] =
                     [Respond(@, 500, "could not update video metadata")
                        EXCEPT !.body = ThumbnailWithURL(p)]]
          /\ UNCHANGED <<db, lastUpdate>>
       \/ /\ h' = [h EXCEPT ![p] = [Respond(@, 200, "") EXCEPT !.body = ThumbnailWithURL(p)]]
          /\ db' = UpdateVideo(ThumbnailWithURL(p))
          /\ lastUpdate' = p
    /\ UNCHANGED <<s3, assets, disk, randCtr>>

ThumbnailStep(p) ==
    \/ BeginThumbnail(p) \/ TParseID(p) \/ TGetBearerToken(p) \/ TValidateJWT(p)
    \/ TParseMultipartForm(p) \/ TFormFile(p) \/ TGetVideo(p) \/ TCheckOwner(p)
    \/ TParseMediaType(p) \/ TCheckMediaType(p) \/ TRand(p) \/ TCreate(p)
    \/ TCopy(p) \/ TUpdateVideo(p)

VideoStep(p) ==
    \/ BeginVideo(p) \/ VParseID(p) \/ VGetBearerToken(p) \/ VValidateJWT(p)
    \/ VGetVideo(p) \/ VCheckOwner(p) \/ VFormFile(p) \/ VParseMediaType(p)
    \/ VCheckMediaType(p) \/ VCreateTemp(p) \/ VCopy(p) \/ VSeek(p)
    \/ VAspectRatio(p) \/ VFastStart(p) \/ VOpen(p) \/ VRand(p)
    \/ VPutObject(p) \/ VUpdateVideo(p)

Next == \E p \in Procs : VideoStep(p) \/ ThumbnailStep(p)

Spec == Init /\ [][Next]_vars

(***************************************************************************)
(* Properties                                                              *)
(***************************************************************************)
VideoReqs == {p \in Procs : h[p].handler = "video"}
ThumbnailReqs == {p \in Procs : h[p].handler = "thumbnail"}

\* The request has not created a temporary file, run a tool or named an object.
NoFileWork(p) ==
    /\ h[p].tmpFile = NoFile
    /\ h[p].probe = <<>>
    /\ h[p].aspectRatio = ""
    /\ h[p].processedPath = NoFile
    /\ h[p].filename = <<>>
    /\ h[p].body = NoVideo
    /\ TempName(p) \notin disk
    /\ ProcessingPath(TempName(p)) \notin disk
    /\ lastUpdate # p

\* C1: a video upload whose authenticated user is not the owner of the record
\* it looked up never gets past the ownership check: it is answered with 401,
\* and it has extracted no file, created no temporary file, run no tool,
\* written no object and updated no record.
C1_NonOwnerRejected ==
    \A p \in VideoReqs :
        (h[p].videoMetadata # NoVideo /\ h[p].videoMetadata.UserID # h[p].userID)
        => /\ h[p].pc \in {"VCheckOwner", "done"}
           /\ h[p].header = NoHeader
           /\ NoFileWork(p)
           /\ h[p].pc = "done" => h[p].status = 401

C1_Witness ==
    \E p \in VideoReqs :
        /\ h[p].videoMetadata # NoVideo
        /\ h[p].videoMetadata.UserID # h[p].userID
        /\ h[p].pc = "done"
        /\ h[p].status = 401

\* C2: a step that ends a request with a status other than 200 leaves the
\* metadata store as it was; the store changes only in the step that answers
\* 200, which is the request's UpdateVideo step, and a finished request takes
\* no further step.
C2_FailureKeepsRecord ==
    [][ /\ \A p \in Procs :
              (h[p].status = 0 /\ h'[p].status \notin {0, 200}) => db' = db
        /\ db' # db =>
              \E p \in Procs : /\ h[p].pc \in {"VUpdateVideo", "TUpdateVideo"}
                               /\ h[p].status = 0
                               /\ h'[p].status = 200
        /\ \A p \in Procs : h[p].pc = "done" => h'[p] = h[p] ]_vars

C2_Witness ==
    \E p \in Procs :
        /\ h[p].status = 500
        /\ h[p].msg \in {"unable to update video metadata", "could not update video metadata"}
        /\ db[h[p].videoID] = h[p].videoMetadata
        /\ db[h[p].videoID] # h[p].body

\* The declared content type is the text video/mp4 and nothing else.
ExactlyVideoMP4(ct) == ct = CT(VideoMP4, FALSE, "none")

\* The request was rejected at the content type: 400, and no file work.
RejectedAtType(p) ==
    /\ h[p].pc \in {"VParseMediaType", "VCheckMediaType", "done"}
    /\ NoFileWork(p)
    /\ h[p].pc = "done" => h[p].status = 400

\* C3 as stated: a video upload by the owner whose declared content type is
\* unparsable or is anything other than exactly video/mp4 is answered with 400
\* and creates no temporary file, writes no object and updates no record.
C3_Original ==
    \A p \in VideoReqs :
        (h[p].header # NoHeader /\ ~ExactlyVideoMP4(h[p].header)) => RejectedAtType(p)

\* C3 amended: a video upload by the owner whose declared content type is
\* unparsable (empty, or with a malformed parameter list) or whose type,
\* lower-cased and without its parameters, is not video/mp4 is answered with
\* 400 and creates no temporary file, writes no object and updates no record.
C3_ParsedTypeRejected ==
    \A p \in VideoReqs :
        ( /\ h[p].header # NoHeader
          /\ \/ h[p].header.base # <<"video", "mp4">>
             \/ h[p].header.params = "bad" )
        => RejectedAtType(p)

C3_Witness ==
    \E p \in VideoReqs :
        /\ h[p].header.base = <<"image", "png">>
        /\ h[p].pc = "done"
        /\ h[p].status = 400
        /\ h[p].msg = "only video/mp4 mimetype accepted"

\* C4 as stated: the record is looked up before the token is validated: a
\* finished video upload with a well-formed ID of no record was answered 404
\* whatever its token, and 401 is only answered when the record exists.
C4_Original ==
    \A p \in VideoReqs :
        (h[p].pc = "done" /\ h[p].videoID # "")
        => /\ h[p].videoID \notin DOMAIN db => h[p].status = 404
           /\ h[p].status = 401 => h[p].videoID \in DOMAIN db

\* C4 amended: the token is extracted and validated before the record is
\* looked up: a finished video upload with a well-formed ID whose token is
\* missing or invalid was answered 401 without any lookup, whether or not the
\* record exists, and 404 is answered exactly when the token is valid and the
\* ID matches no record.
C4_TokenBeforeLookup ==
    \A p \in VideoReqs :
        (h[p].pc = "done" /\ h[p].videoID # "")
        => /\ h[p].userID = "" => (h[p].status = 401 /\ h[p].videoMetadata = NoVideo)
           /\ h[p].status = 404 <=> (h[p].userID # "" /\ h[p].videoID \notin DOMAIN db)

C4_Witness ==
    \E p \in VideoReqs :
        /\ h[p].pc = "done"
        /\ h[p].videoID = "v9"
        /\ h[p].userID = ""
        /\ h[p].status = 401

\* C5 as stated: a thumbnail upload that passed authentication, form parsing,
\* lookup and ownership is accepted exactly when its declared type parses to
\* image/jpeg or image/png; every other declared type, an unparsable one
\* included, is answered 400, creates no asset and leaves the thumbnail URL.
C5_Original ==
    \A p \in ThumbnailReqs :
        ( /\ h[p].videoMetadata # NoVideo
          /\ h[p].videoMetadata.UserID = h[p].userID
          /\ h[p].pc \notin {"TCheckOwner", "TParseMediaType", "TCheckMediaType"} )
        => IF h[p].header.params # "bad" /\ h[p].header.base \in {ImageJPEG, ImagePNG}
           THEN h[p].pc = "done" => h[p].status # 400
           ELSE /\ h[p].pc = "done"
                /\ h[p].status = 400
                /\ h[p].filename = <<>>
                /\ lastUpdate # p

\* The bucket the claim gives a first stream of the given width and height.
Bucket(w, ht) ==
    IF w < ht THEN "9:16"
    ELSE IF ht < w /\ w < 2 * ht THEN "16:9"
    ELSE "other"

C7_VideoURL ==
    \A p \in VideoReqs :
        h[p].status = 200
        => \E r \in {RandNames[i] : i \in 1 .. Len(RandNames)} :
             LET pre == CASE h[p].aspectRatio = "16:9" -> "landscape"
                          [] h[p].aspectRatio = "9:16" -> "portrait"
                          [] h[p].aspectRatio = "other" -> "other"
                          [] OTHER -> "?"
             IN  /\ h[p].filename = <<pre, "/", r, ".", "mp4">>
                 /\ h[p].filename \in s3
                 /\ h[p].body.VideoURL = <<s3CfDistribution, "/", pre, "/", r, ".", "mp4">>
                 /\ lastUpdate = p => db[h[p].videoID] = h[p].body

C7_Witness ==
    \E p \in VideoReqs :
        /\ h[p].status = 200
        /\ h[p].aspectRatio = "16:9"
        /\ lastUpdate = p
        /\ db["v1"].VideoURL = <<s3CfDistribution, "/", "landscape", "/", "r1", ".", "mp4">>

\* C8 as stated: once a video upload that created its temporary file has
\* finished, neither the raw upload's temporary file nor the rewritten file
\* at <path>.processing is on disk.
C8_Original ==
    \A p \in VideoReqs :
        (h[p].pc = "done" /\ h[p].tmpFile # NoFile)
        => /\ h[p].tmpFile \notin disk
           /\ ProcessingPath(h[p].tmpFile) \notin disk

\* The record a request writes back: the one it read, its own URL field changed.
WriteBack(p) ==
    IF h[p].handler = "video"
    THEN [h[p].videoMetadata EXCEPT !.VideoURL = <<s3CfDistribution, "/">> \o h[p].filename]
    ELSE [h[p].videoMetadata EXCEPT
            !.ThumbnailURL = <<"http://localhost:", port, "/assets/">> \o h[p].filename]

\* C9: when two uploads for the same record have both been answered 200, in
\* whatever order their steps interleaved, the stored record is the record the
\* last of the two UpdateVideo calls was passed: the record that request read,
\* with only its own URL field changed.
C9_LastWriteWins ==
    \A p, q \in Procs :
        (p # q /\ h[p].status = 200 /\ h[q].status = 200 /\ h[p].videoID = h[q].videoID)
        => /\ lastUpdate \in {p, q}
           /\ db[h[p].videoID] = WriteBack(lastUpdate)

\* Both answered 200, and the video URL the first request stored is lost.
C9_Witness ==
    \E p \in VideoReqs, q \in ThumbnailReqs :
        /\ h[p].status = 200
        /\ h[q].status = 200
        /\ lastUpdate = q
        /\ db["v1"].VideoURL = NoURL
        /\ db["v1"].ThumbnailURL # NoURL

\* Every URL a record holds names a written object or a fully copied asset.
URLsResolve ==
    \A v \in DOMAIN db :
        /\ db[v].VideoURL # NoURL
              => SubSeq(db[v].VideoURL, 3, Len(db[v].VideoURL)) \in s3
        /\ db[v].ThumbnailURL # NoURL
              => LET name == SubSeq(db[v].ThumbnailURL, 4, Len(db[v].ThumbnailURL))
                 IN  name \in DOMAIN assets /\ assets[name] = "full"

\* C10: in every state each video URL of a record names a key of an object
\* that is in storage and each thumbnail URL a file of the assets directory
\* with the upload fully copied; and no step removes an object or an asset or
\* takes bytes from a fully copied asset.
C10_URLsResolve ==
    /\ []URLsResolve
    /\ [][ /\ s3 \subseteq s3'
           /\ \A f \in DOMAIN assets :
                 f \in DOMAIN assets' /\ (assets[f] = "full" => assets'[f] = "full") ]_vars

\* A record URL that resolves, beside an object a failed UpdateVideo left
\* that no record references.
C10_Witness ==
    \E p, q \in VideoReqs :
        /\ h[p].status = 200
        /\ db["v1"].VideoURL = VideoURL(h[p].filename)
        /\ h[q].status = 500
        /\ h[q].msg = "unable to update video metadata"
        /\ h[q].filename \in s3
        /\ \A v \in DOMAIN db : db[v].VideoURL # VideoURL(h[q].filename)
====
